---- MODULE Spec2Model ----
(***************************************************************************)
(* Model of converter/onnx_batch_size_converter.py:                        *)
(* update_inputs_outputs_dims(model, input_dims, output_dims), which       *)
(* rewrites the per-axis dimension descriptors of the inputs and outputs   *)
(* of an ONNX graph in place and then runs onnx.checker.check_model.       *)
(*                                                                         *)
(* Strings are sequences of one-character strings, so that the generated   *)
(* name  name + "_" + str(j)  is a real concatenation.                     *)
(***************************************************************************)
EXTENDS Integers, Sequences, FiniteSets, TLC

\* ------------------------------------------------------------------ bounds
\* size of a call: tensors + dimension-map keys + axes/requested entries
MaxSize == 4
\* largest rank of a tensor / length of a requested sequence
MaxRank == 2
\* number of successive calls made on the same model with the same arguments
MaxCalls == 2

\* ------------------------------------------------------------ Python str
Digits == <<"0", "1", "2", "3", "4", "5", "6", "7", "8", "9">>

RECURSIVE Str(_)
Str(n) == IF n < 10 THEN <<Digits[n + 1]>>
          ELSE Str(n \div 10) \o <<Digits[(n % 10) + 1]>>

GeneratedDimParam(name, k) == name \o <<"_">> \o Str(k)

\* ------------------------------------------------------------ data model
TensorNames == {<<"x">>, <<"y">>}
ValueInfoName == <<"v">>
\* dim_value values / requested non-negative integers
DimValues == {0, 1}
SymNames == {GeneratedDimParam(<<"x">>, 0)}

\* TensorShapeProto.Dimension: oneof {dim_value, dim_param}, possibly unset
DimValue(v) == [has |-> "dim_value", dim_value |-> v, dim_param |-> <<>>]
DimParam(s) == [has |-> "dim_param", dim_value |-> 0, dim_param |-> s]
DimUnset == [has |-> "none", dim_value |-> 0, dim_param |-> <<>>]
HasField(dim_proto, f) == dim_proto.has = f

DimProtos == {DimValue(v) : v \in DimValues} \cup {DimParam(s) : s \in SymNames}
                \cup {DimUnset}

\* a requested dimension: a Python int, a Python str, or anything else
IntDim(v) == [type |-> "int", int |-> v, str |-> <<>>]
StrDim(s) == [type |-> "str", int |-> 0, str |-> s]
OtherDim == [type |-> "other", int |-> 0, str |-> <<>>]
DimRequests == {IntDim(v) : v \in {-1} \cup DimValues} \cup {StrDim(s) : s \in SymNames}
                  \cup {OtherDim}

ValueInfo(name, dims) == [name |-> name, dim |-> dims]

Max(a, b) == IF a >= b THEN a ELSE b
Min(a, b) == IF a <= b THEN a ELSE b

VARIABLES graph, input_dims, output_dims, dim_param_set, pc, i, j, error,
          entry, calls, checks, checked

vars == <<graph, input_dims, output_dims, dim_param_set, pc, i, j, error,
          entry, calls, checks, checked>>

\* ----------------------------------------------------- arguments of a call
\* Slots 1..4 are (input, x), (input, y), (output, x), (output, y).  A slot
\* is a pair <<r, a>>: r = -1 when the graph has no such tensor, else its
\* rank; a = -1 when the dimension map has no such key, else the length of
\* the requested sequence.
SlotName(k) == IF k \in {1, 3} THEN <<"x">> ELSE <<"y">>
SlotCost(ra) == IF ra[1] = -1 /\ ra[2] = -1 THEN 0
                ELSE 1 + Max(Max(ra[1], ra[2]), 0)
SlotChoices(b) == {ra \in (-1..MaxRank) \X (-1..MaxRank) : SlotCost(ra) <= b}

RECURSIVE Profiles(_, _)
Profiles(n, b) ==
    IF n = 0 THEN {<<>>}
    ELSE UNION { {<<ra>> \o p : p \in Profiles(n - 1, b - SlotCost(ra))}
                 : ra \in SlotChoices(b) }

RECURSIVE ProfileCost(_)
ProfileCost(p) == IF p = <<>> THEN 0 ELSE SlotCost(Head(p)) + ProfileCost(Tail(p))

\* number of axes (w = 1) or requested entries (w = 2) of the slots before k
RECURSIVE Offset(_, _, _)
Offset(p, k, w) == IF k = 1 THEN 0
                   ELSE Offset(p, k - 1, w) + Max(p[k - 1][w], 0)

SlotTensor(p, axes, k) ==
    ValueInfo(SlotName(k), SubSeq(axes, Offset(p, k, 1) + 1, Offset(p, k, 1) + p[k][1]))
SlotArr(p, reqs, k) ==
    SubSeq(reqs, Offset(p, k, 2) + 1, Offset(p, k, 2) + p[k][2])

\* the tensors of slots a, b that exist, b first when swap
SlotList(p, axes, a, b, swap) ==
    LET ta == IF p[a][1] >= 0 THEN <<SlotTensor(p, axes, a)>> ELSE <<>>
        tb == IF p[b][1] >= 0 THEN <<SlotTensor(p, axes, b)>> ELSE <<>>
    IN IF swap THEN tb \o ta ELSE ta \o tb
SlotDims(p, reqs, a, b) ==
    [n \in {SlotName(k) : k \in {m \in {a, b} : p[m][2] >= 0}} |->
        IF n = SlotName(a) THEN SlotArr(p, reqs, a) ELSE SlotArr(p, reqs, b)]
Swaps(p, a, b) == IF p[a][1] >= 0 /\ p[b][1] >= 0 THEN BOOLEAN ELSE {FALSE}

Init ==
    \E p \in Profiles(4, MaxSize) :
    \E rv \in -1..Min(MaxRank, MaxSize - ProfileCost(p) - 1) :
    \E axes \in [1..(Offset(p, 5, 1) + Max(rv, 0)) -> DimProtos] :
    \E reqs \in [1..Offset(p, 5, 2) -> DimRequests] :
    \E si \in Swaps(p, 1, 2) : \E so \in Swaps(p, 3, 4) :
      /\ graph = [input |-> SlotList(p, axes, 1, 2, si),
                  output |-> SlotList(p, axes, 3, 4, so),
                  value_info |->
                     IF rv >= 0
                     THEN <<ValueInfo(ValueInfoName,
                               SubSeq(axes, Offset(p, 5, 1) + 1, Offset(p, 5, 1) + rv))>>
                     ELSE <<>>]
      /\ input_dims = SlotDims(p, reqs, 1, 2)
      /\ output_dims = SlotDims(p, reqs, 3, 4)
      /\ dim_param_set = {}
      /\ pc = "entry"
      /\ i = 1
      /\ j = -1
      /\ error = "none"
      /\ entry = graph
      /\ calls = 1
      /\ checks = 0
      /\ checked = {}

\* --------------------------------------------------------------- the code
\* init_dim_param_set: add every dim_param of value_infos to dim_param_set
init_dim_param_set(dps, value_infos) ==
    dps \cup UNION { { value_infos[k].dim[m].dim_param :
                         m \in { n \in DOMAIN value_infos[k].dim :
                                   HasField(value_infos[k].dim[n], "dim_param") } }
                     : k \in DOMAIN value_infos }

\* update_dim leaving a dim_value in place when a str is requested
update_dim_keep_fixed(dim_proto, dim, k, name, dps) ==
    IF dim.type = "int"
    THEN IF dim.int >= 0
         THEN IF HasField(dim_proto, "dim_value") /\ dim_proto.dim_value # dim.int
              THEN [error |-> "Contradiction", dim |-> dim_proto]
              ELSE [error |-> "none", dim |-> DimValue(dim.int)]
         ELSE IF GeneratedDimParam(name, k) \in dps
              THEN [error |-> "NameCollision", dim |-> dim_proto]
              ELSE [error |-> "none", dim |-> DimParam(GeneratedDimParam(name, k))]
    ELSE IF dim.type = "str"
         THEN [error |-> "none",
               dim |-> IF HasField(dim_proto, "dim_value") THEN dim_proto
                       ELSE DimParam(dim.str)]
         ELSE [error |-> "InvalidType", dim |-> dim_proto]

\* update_dim without the comparison with the existing dim_value
update_dim_no_check(dim_proto, dim, k, name, dps) ==
    IF dim.type = "int"
    THEN IF dim.int >= 0
         THEN [error |-> "none", dim |-> DimValue(dim.int)]
         ELSE IF GeneratedDimParam(name, k) \in dps
              THEN [error |-> "NameCollision", dim |-> dim_proto]
              ELSE [error |-> "none", dim |-> DimParam(GeneratedDimParam(name, k))]
    ELSE IF dim.type = "str"
         THEN [error |-> "none", dim |-> DimParam(dim.str)]
         ELSE [error |-> "InvalidType", dim |-> dim_proto]

\* update_dim assigning the generated dim_param before the membership test
update_dim_assign_first(dim_proto, dim, k, name, dps) ==
    IF dim.type = "int"
    THEN IF dim.int >= 0
         THEN IF HasField(dim_proto, "dim_value") /\ dim_proto.dim_value # dim.int
              THEN [error |-> "Contradiction", dim |-> dim_proto]
              ELSE [error |-> "none", dim |-> DimValue(dim.int)]
         ELSE IF GeneratedDimParam(name, k) \in dps
              THEN [error |-> "NameCollision",
                    dim |-> DimParam(GeneratedDimParam(name, k))]
              ELSE [error |-> "none", dim |-> DimParam(GeneratedDimParam(name, k))]
    ELSE IF dim.type = "str"
         THEN [error |-> "none", dim |-> DimParam(dim.str)]
         ELSE [error |-> "InvalidType", dim |-> dim_proto]

\* update_dim on the Dimension dim_proto = tensor...shape.dim[k]: the error
\* raised ("none" when it returns) and the Dimension afterwards
update_dim(dim_proto, dim, k, name, dps) ==
    IF dim.type = "int"
    THEN IF dim.int >= 0
         THEN IF HasField(dim_proto, "dim_value") /\ dim_proto.dim_value # dim.int
              THEN [error |-> "Contradiction", dim |-> dim_proto]
              ELSE [error |-> "none", dim |-> DimValue(dim.int)]
         ELSE IF GeneratedDimParam(name, k) \in dps
              THEN [error |-> "NameCollision", dim |-> dim_proto]
              ELSE [error |-> "none", dim |-> DimParam(GeneratedDimParam(name, k))]
    ELSE IF dim.type = "str"
         THEN [error |-> "none", dim |-> DimParam(dim.str)]
         ELSE [error |-> "InvalidType", dim |-> dim_proto]

Dims(cat) == IF cat = "input" THEN input_dims ELSE output_dims

\* an exception leaves the function at the statement that raised it
Raise(e) == /\ error' = e
            /\ UNCHANGED pc

\* the first loop after phase from that has a tensor to visit (lines 74, 80),
\* else the call of the checker (line 85)
NextPhase(from) ==
    IF from = "entry" /\ Len(graph.input) > 0 THEN "input"
    ELSE IF from \in {"entry", "input"} /\ Len(graph.output) > 0 THEN "output"
         ELSE "check"

\* Enter without the scan of graph.value_info
Enter_no_value_info ==
    /\ pc = "entry"
    /\ error = "none"
    /\ dim_param_set' =
          init_dim_param_set(init_dim_param_set({}, graph.input), graph.output)
    /\ pc' = NextPhase("entry")
    /\ i' = 1
    /\ j' = -1
    /\ UNCHANGED <<graph, input_dims, output_dims, error, entry, calls, checks, checked>>

\* Enter with a dim_param_set that is built by the first call only
Enter_cached ==
    /\ pc = "entry"
    /\ error = "none"
    /\ dim_param_set' =
          IF calls = 1
          THEN init_dim_param_set(
                 init_dim_param_set(
                   init_dim_param_set({}, graph.input), graph.output), graph.value_info)
          ELSE dim_param_set
    /\ pc' = NextPhase("entry")
    /\ i' = 1
    /\ j' = -1
    /\ UNCHANGED <<graph, input_dims, output_dims, error, entry, calls, checks, checked>>

\* lines 35-47: the function is entered and dim_param_set is built
Enter ==
    /\ pc = "entry"
    /\ error = "none"
    /\ dim_param_set' =
          init_dim_param_set(
            init_dim_param_set(
              init_dim_param_set({}, graph.input), graph.output), graph.value_info)
    /\ pc' = NextPhase("entry")
    /\ i' = 1
    /\ j' = -1
    /\ UNCHANGED <<graph, input_dims, output_dims, error, entry, calls, checks, checked>>

\* the next tensor of the running loop or, when that loop is exhausted, the
\* statement after it
Advance ==
    /\ IF i < Len(graph[pc])
       THEN i' = i + 1 /\ UNCHANGED pc
       ELSE i' = 1 /\ pc' = NextPhase(pc)
    /\ j' = -1
    /\ UNCHANGED error

\* LoopHead with dims.get(name, []) in place of dims[name]
LoopHead_skip(cat) ==
    /\ pc = cat
    /\ error = "none"
    /\ j = -1
    /\ IF graph[cat][i].name \notin DOMAIN Dims(cat)
       THEN Advance
       ELSE IF Len(Dims(cat)[graph[cat][i].name]) = 0
            THEN Advance
            ELSE j' = 0 /\ UNCHANGED <<pc, i, error>>
    /\ UNCHANGED <<graph, input_dims, output_dims, dim_param_set, entry, calls,
                   checks, checked>>

\* lines 74-76 / 80-82: the loop over the tensors takes tensor i and looks its
\* name up in the dimension map
LoopHead(cat) ==
    /\ pc = cat
    /\ error = "none"
    /\ j = -1
    /\ IF graph[cat][i].name \notin DOMAIN Dims(cat)
       THEN Raise("KeyError") /\ UNCHANGED <<i, j>>
       ELSE IF Len(Dims(cat)[graph[cat][i].name]) = 0
            THEN Advance
            ELSE j' = 0 /\ UNCHANGED <<pc, i, error>>
    /\ UNCHANGED <<graph, input_dims, output_dims, dim_param_set, entry, calls,
                   checks, checked>>

\* UpdateAxis adding each dim_param it assigns to dim_param_set
UpdateAxis_refresh(cat) ==
    /\ pc = cat
    /\ error = "none"
    /\ j >= 0
    /\ LET tensor == graph[cat][i]
           arr == Dims(cat)[tensor.name]
       IN IF j >= Len(tensor.dim)
          THEN Raise("IndexError") /\ UNCHANGED <<graph, i, j, dim_param_set>>
          ELSE LET r == update_dim(tensor.dim[j + 1], arr[j + 1], j, tensor.name,
                                   dim_param_set)
               IN /\ graph' = [graph EXCEPT ![cat][i].dim[j + 1] = r.dim]
                  /\ dim_param_set' =
                        IF r.error = "none" /\ HasField(r.dim, "dim_param")
                        THEN dim_param_set \cup {r.dim.dim_param}
                        ELSE dim_param_set
                  /\ IF r.error # "none"
                     THEN Raise(r.error) /\ UNCHANGED <<i, j>>
                     ELSE IF j + 1 < Len(arr)
                          THEN j' = j + 1 /\ UNCHANGED <<pc, i, error>>
                          ELSE Advance
    /\ UNCHANGED <<input_dims, output_dims, entry, calls, checks, checked>>

\* UpdateAxis adding an axis to the tensor when it has no axis j
UpdateAxis_append(cat) ==
    /\ pc = cat
    /\ error = "none"
    /\ j >= 0
    /\ LET tensor == graph[cat][i]
           arr == Dims(cat)[tensor.name]
           old == IF j < Len(tensor.dim) THEN tensor.dim[j + 1] ELSE DimUnset
           r == update_dim(old, arr[j + 1], j, tensor.name, dim_param_set)
       IN /\ graph' = [graph EXCEPT ![cat][i].dim =
                          IF j < Len(tensor.dim)
                          THEN [tensor.dim EXCEPT ![j + 1] = r.dim]
                          ELSE Append(tensor.dim, r.dim)]
          /\ IF r.error # "none"
             THEN Raise(r.error) /\ UNCHANGED <<i, j>>
             ELSE IF j + 1 < Len(arr)
                  THEN j' = j + 1 /\ UNCHANGED <<pc, i, error>>
                  ELSE Advance
    /\ UNCHANGED <<input_dims, output_dims, dim_param_set, entry, calls, checks,
                   checked>>

\* lines 77-78 / 83-84: update_dim(tensor, dim, j, name) for one entry;
\* line 49 raises when the tensor has no axis j
UpdateAxis(cat) ==
    /\ pc = cat
    /\ error = "none"
    /\ j >= 0
    /\ LET tensor == graph[cat][i]
           arr == Dims(cat)[tensor.name]
       IN IF j >= Len(tensor.dim)
          THEN Raise("IndexError") /\ UNCHANGED <<graph, i, j>>
          ELSE LET r == update_dim(tensor.dim[j + 1], arr[j + 1], j, tensor.name,
                                   dim_param_set)
               IN /\ graph' = [graph EXCEPT ![cat][i].dim[j + 1] = r.dim]
                  /\ IF r.error # "none"
                     THEN Raise(r.error) /\ UNCHANGED <<i, j>>
                     ELSE IF j + 1 < Len(arr)
                          THEN j' = j + 1 /\ UNCHANGED <<pc, i, error>>
                          ELSE Advance
    /\ UNCHANGED <<input_dims, output_dims, dim_param_set, entry, calls, checks,
                   checked>>

InputLoop == LoopHead("input")
InputAxis == UpdateAxis("input")
OutputLoop == LoopHead("output")
OutputAxis == UpdateAxis("output")

\* CheckModel restoring the model when the checker rejects it
CheckModel_rollback ==
    /\ pc = "check"
    /\ error = "none"
    /\ checks' = checks + 1
    /\ \E ok \in BOOLEAN :
         /\ \A c \in checked : c.model = graph => c.ok = ok
         /\ checked' = checked \cup {[model |-> graph, ok |-> ok]}
         /\ IF ok THEN pc' = "returned" /\ UNCHANGED <<error, graph>>
            ELSE Raise("ValidationError") /\ graph' = entry
    /\ UNCHANGED <<input_dims, output_dims, dim_param_set, i, j, entry, calls>>

\* lines 85-86: onnx.checker.check_model(model), a function of the model,
\* then return
CheckModel ==
    /\ pc = "check"
    /\ error = "none"
    /\ checks' = checks + 1
    /\ \E ok \in BOOLEAN :
         /\ \A c \in checked : c.model = graph => c.ok = ok
         /\ checked' = checked \cup {[model |-> graph, ok |-> ok]}
         /\ IF ok THEN pc' = "returned" /\ UNCHANGED error
            ELSE Raise("ValidationError")
    /\ UNCHANGED <<graph, input_dims, output_dims, dim_param_set, i, j, entry, calls>>

\* the caller applies the function again to the returned model, with the
\* same input_dims and output_dims
CallAgain ==
    /\ pc = "returned"
    /\ calls < MaxCalls
    /\ calls' = calls + 1
    /\ pc' = "entry"
    /\ entry' = graph
    /\ checks' = 0
    /\ UNCHANGED <<graph, input_dims, output_dims, dim_param_set, i, j, error, checked>>

Next == \/ Enter
        \/ InputLoop
        \/ InputAxis
        \/ OutputLoop
        \/ OutputAxis
        \/ CheckModel
        \/ CallAgain

Spec == Init /\ [][Next]_vars

\* ------------------------------------------------- vocabulary of the claims
Cats == {"input", "output"}

\* <<cat, k, m>>: axis m (from 0) of the k-th tensor of category cat of g
AxesOf(g) ==
    UNION { UNION { { <<cat, k, m - 1>> : m \in DOMAIN g[cat][k].dim }
                    : k \in DOMAIN g[cat] }
            : cat \in Cats }
HasAxis(g, a) == a[2] \in DOMAIN g[a[1]] /\ a[3] < Len(g[a[1]][a[2]].dim)
AxisAt(g, a) == g[a[1]][a[2]].dim[a[3] + 1]
NameOf(a) == entry[a[1]][a[2]].name

\* the axis has an entry in the sequence supplied for its tensor
Supplied(a) == /\ NameOf(a) \in DOMAIN Dims(a[1])
               /\ a[3] < Len(Dims(a[1])[NameOf(a)])
Request(a) == Dims(a[1])[NameOf(a)][a[3] + 1]
Negative(a) == Supplied(a) /\ Request(a).type = "int" /\ Request(a).int < 0

\* what the axis must hold once its entry has been applied
Requested(a) ==
    IF Request(a).type = "int" /\ Request(a).int >= 0 THEN DimValue(Request(a).int)
    ELSE IF Request(a).type = "int"
         THEN DimParam(NameOf(a) \o <<"_">> \o Str(a[3]))
         ELSE DimParam(Request(a).str)

\* processing order: inputs before outputs, tensors in model order, axes
\* in increasing index
Before(a, b) ==
    \/ a[1] = "input" /\ b[1] = "output"
    \/ a[1] = b[1] /\ a[2] < b[2]
    \/ a[1] = b[1] /\ a[2] = b[2] /\ a[3] < b[3]

\* the entry of axis a has been applied by the current call
Processed(a) ==
    /\ Supplied(a)
    /\ \/ pc \in {"check", "returned"}
       \/ pc = "output" /\ a[1] = "input"
       \/ pc = a[1] /\ (a[2] < i \/ (a[2] = i /\ j >= 0 /\ a[3] < j))

\* the call is about to apply the entry of axis a
AtAxis(a) == /\ pc = a[1]
             /\ error = "none"
             /\ i = a[2]
             /\ j = a[3]

\* the symbolic names on the axes of the inputs, outputs and value infos of g
SymbolicNames(g) ==
    UNION { UNION { { g[f][k].dim[m].dim_param :
                        m \in { n \in DOMAIN g[f][k].dim :
                                  g[f][k].dim[n].has = "dim_param" } }
                    : k \in DOMAIN g[f] }
            : f \in {"input", "output", "value_info"} }

Failed == error # "none"

Generated(a) == NameOf(a) \o <<"_">> \o Str(a[3])

\* every supplied entry of every input and output tensor has been applied
AllApplied ==
    \A cat \in Cats : \A k \in DOMAIN graph[cat] :
       /\ graph[cat][k].name \in DOMAIN Dims(cat)
       /\ \A m \in 0..(Len(Dims(cat)[graph[cat][k].name]) - 1) :
             /\ m < Len(graph[cat][k].dim)
             /\ AxisAt(graph, <<cat, k, m>>) = Requested(<<cat, k, m>>)

\* the loops have moved past the k-th tensor of cat
PastTensor(cat, k) ==
    \/ pc \in {"check", "returned"}
    \/ pc = "output" /\ cat = "input"
    \/ pc = cat /\ k < i

\* ------------------------------------------------------------------ claims

\* C1: when the call returns, every axis that has an entry in the sequence
\* supplied for its tensor holds Fixed(d) for an integer d >= 0,
\* Symbolic(name_j) for a negative integer and Symbolic(s) for a string s,
\* whatever it held before.
C1_ReturnedAxesHoldRequests == pc = "returned" => AllApplied

C1_Witness ==
    /\ pc = "returned"
    /\ calls = 1
    /\ \E a \in AxesOf(graph) :
          /\ Supplied(a)
          /\ Request(a).type = "str"
          /\ AxisAt(entry, a).has = "dim_value"
          /\ AxisAt(graph, a) = DimParam(Request(a).str)
    /\ \E a \in AxesOf(graph) : Negative(a) /\ AxisAt(graph, a) = DimParam(Generated(a))

\* C2: on an axis holding Fixed(v) a request d >= 0 is accepted iff d = v:
\* d # v raises the contradiction failure and d = v succeeds, the axis
\* holding Fixed(v) afterwards in both cases; no call turns a Fixed axis
\* into a different Fixed value.
C2_FixedAxisRestatedOrRejected ==
    [][ /\ \A a \in AxesOf(graph) :
             ( /\ AtAxis(a)
               /\ AxisAt(graph, a).has = "dim_value"
               /\ Request(a).type = "int"
               /\ Request(a).int >= 0 )
             => /\ AxisAt(graph', a) = AxisAt(graph, a)
                /\ IF Request(a).int # AxisAt(graph, a).dim_value
                   THEN error' = "Contradiction"
                   ELSE error' = "none" /\ ~AtAxis(a)'
        /\ \A a \in AxesOf(entry') :
             ( /\ HasAxis(graph', a)
               /\ AxisAt(entry', a).has = "dim_value"
               /\ AxisAt(graph', a).has = "dim_value" )
             => AxisAt(graph', a).dim_value = AxisAt(entry', a).dim_value
      ]_vars

C2_Witness ==
    /\ error = "Contradiction"
    /\ \E a \in AxesOf(graph) :
          /\ pc = a[1] /\ i = a[2] /\ j = a[3]
          /\ AxisAt(graph, a).has = "dim_value"
          /\ Request(a).int # AxisAt(graph, a).dim_value
    /\ \E b \in AxesOf(graph) :
          /\ Processed(b)
          /\ AxisAt(entry, b).has = "dim_value"
          /\ Request(b) = IntDim(AxisAt(entry, b).dim_value)

\* C3: a negative request for axis j of tensor x, when x_j is a symbolic
\* name of an input, output or value-info axis of the model at entry, raises
\* the name-collision failure and leaves the model as it was.
C3_CollisionRejected ==
    [][ \A a \in AxesOf(graph) :
          ( /\ AtAxis(a)
            /\ Negative(a)
            /\ Generated(a) \in SymbolicNames(entry) )
          => /\ error' = "NameCollision"
             /\ graph' = graph
      ]_vars

C3_Witness ==
    /\ error = "NameCollision"
    /\ \E a \in AxesOf(graph) :
          /\ pc = a[1] /\ i = a[2] /\ j = a[3]
          /\ Negative(a)
          /\ Generated(a) \in SymbolicNames([input |-> <<>>, output |-> <<>>,
                                             value_info |-> entry.value_info])
          /\ Generated(a) \notin SymbolicNames([input |-> entry.input,
                                                output |-> entry.output,
                                                value_info |-> <<>>])

\* C4: a tensor of the model whose name is not a key of the matching
\* dimension map raises the lookup failure, that tensor being unmodified at
\* that moment; the loops never move past such a tensor.
C4_MissingKeyRaises ==
    [][ /\ \A cat \in Cats : \A k \in DOMAIN graph[cat] :
             ( /\ pc = cat /\ error = "none" /\ i = k /\ j = -1
               /\ graph[cat][k].name \notin DOMAIN Dims(cat) )
             => /\ error' = "KeyError"
                /\ graph' = graph
                /\ graph[cat][k] = entry[cat][k]
        /\ \A cat \in Cats : \A k \in DOMAIN graph'[cat] :
             PastTensor(cat, k)' => graph'[cat][k].name \in DOMAIN Dims(cat)
      ]_vars

C4_Witness ==
    /\ error = "KeyError"
    /\ pc = "output"
    /\ graph.output[i].name \notin DOMAIN output_dims
    /\ graph.output[i].dim # <<>>
    /\ graph # entry

\* C5: two distinct axes that received a generated name in the same call
\* hold different names.
C5_GeneratedNamesUnique ==
    \A a, b \in AxesOf(graph) :
       ( /\ a # b
         /\ Processed(a) /\ Negative(a)
         /\ Processed(b) /\ Negative(b) )
       => AxisAt(graph, a) # AxisAt(graph, b)

\* C6: check_model is invoked at most once per call, only once every
\* supplied entry of every input and output has been applied and never
\* after another failure; when it fails the call fails and the model keeps
\* every mutation.
C6_ValidatorLast ==
    /\ checks <= 1
    /\ checks = 1 => AllApplied /\ error \in {"none", "ValidationError"}
    /\ error = "ValidationError" => checks = 1 /\ pc = "check"
    /\ pc = "returned" => checks = 1

C6_Witness ==
    /\ error = "ValidationError"
    /\ checks = 1
    /\ graph # entry
    /\ graph.input # <<>>
    /\ graph.output # <<>>

\* C7: inputs are processed before outputs, tensors in model order, axes in
\* increasing index: in every state of a call, failed or not, the axes whose
\* entry has been applied hold the requested value and the axis at the point
\* of failure and all later ones hold the value they had at entry.
C7_PrefixApplied ==
    \A a \in AxesOf(entry) :
       /\ HasAxis(graph, a)
       /\ AxisAt(graph, a) = IF Processed(a) THEN Requested(a) ELSE AxisAt(entry, a)

C7_Witness ==
    /\ error \in {"Contradiction", "NameCollision", "InvalidType"}
    /\ pc = "output"
    /\ \E a \in AxesOf(graph) :
          /\ a[1] = "input"
          /\ Processed(a)
          /\ AxisAt(graph, a) # AxisAt(entry, a)
    /\ AxisAt(graph, <<"output", i, j>>) # Requested(<<"output", i, j>>)

C9_Frame ==
    /\ graph.value_info = entry.value_info
    /\ \A cat \in Cats :
          /\ Len(graph[cat]) = Len(entry[cat])
          /\ \A k \in DOMAIN entry[cat] :
                /\ graph[cat][k].name = entry[cat][k].name
                /\ Len(graph[cat][k].dim) = Len(entry[cat][k].dim)
    /\ \A a \in AxesOf(entry) :
          ~Supplied(a) => AxisAt(graph, a) = AxisAt(entry, a)

C9_Witness ==
    /\ pc = "returned"
    /\ graph # entry
    /\ \E a \in AxesOf(entry) : NameOf(a) \in DOMAIN Dims(a[1]) /\ ~Supplied(a)
    /\ \E n \in DOMAIN input_dims :
          /\ \A k \in DOMAIN graph.input : graph.input[k].name # n

\* C10: applied again with the same maps to the model it returned, the call
\* raises the name-collision failure at the first negative entry in
\* processing order when there is one, and otherwise succeeds again leaving
\* every axis unchanged.
C10_SecondCall ==
    calls >= 2 =>
       IF \E a \in AxesOf(graph) : Negative(a)
       THEN /\ pc \notin {"check", "returned"}
            /\ \A a \in AxesOf(graph) : Negative(a) => ~Processed(a)
            /\ Failed =>
                 /\ error = "NameCollision"
                 /\ \E a \in AxesOf(graph) :
                       /\ pc = a[1] /\ i = a[2] /\ j = a[3]
                       /\ Negative(a)
                       /\ \A b \in AxesOf(graph) : Negative(b) => ~Before(b, a)
       ELSE /\ error = "none"
            /\ graph = entry

C10_Witness ==
    /\ calls = 2
    /\ error = "NameCollision"
    /\ \E a, b \in AxesOf(graph) :
          /\ pc = a[1] /\ i = a[2] /\ j = a[3]
          /\ Negative(a) /\ Negative(b)
          /\ Before(a, b)
          /\ AxisAt(graph, a) = DimParam(Generated(a))
====
